---- MODULE Spec2Model ----
(***************************************************************************)
(* DRIBBLE admin client: session (AuthProvider + axios interceptors), the  *)
(* orders list screen (list and stats fetches, filter tabs), the order     *)
(* detail screen (fetch / advance / cancel) and the status registry and    *)
(* transition resolver it renders from.                                    *)
(*                                                                         *)
(* JavaScript null and undefined are the strings Null and Undefined; a     *)
(* nullable object (the displayed order) is a sequence of length 0 or 1.   *)
(* A remote call is a record in net from its dispatch to the moment it     *)
(* settles and its awaiting continuation runs; the remote service decides  *)
(* the outcome at that moment, and delivered records it for the step.      *)
(***************************************************************************)
EXTENDS Integers, Sequences, FiniteSets, TLC

VARIABLES
    token,        \* credential store entry 'auth_token' (Null when absent)
    user,         \* AuthProvider state: user
    authLoading,  \* AuthProvider state: isLoading
    authCheck,    \* position of the startup checkAuthStatus effect
    screen,       \* the focused route
    order,        \* OrderDetailScreen state: order
    isLoading,    \* OrderDetailScreen state: isLoading
    isUpdating,   \* OrderDetailScreen state: isUpdating
    dialog,       \* the confirmation Alert that is open, if any
    alerts,       \* the notices (Alert.alert) raised by the step just taken
    delivered,    \* the call settled by the step just taken, with its outcome
    srvStatus,    \* the remote system of record: status of the order
    pushPending,  \* setupPushNotifications has been started and not yet run
    net,          \* remote calls awaited by a continuation
    orders,         \* OrdersScreen state: orders
    listLoading,    \* OrdersScreen state: isLoading
    isRefreshing,   \* OrdersScreen state: isRefreshing
    selectedStatus, \* OrdersScreen state: selectedStatus
    stats           \* OrdersScreen state: stats

\* The state of the orders list screen.
listVars == <<orders, listLoading, isRefreshing, selectedStatus, stats>>

vars == <<token, user, authLoading, authCheck, screen, order, isLoading,
          isUpdating, dialog, alerts, delivered, srvStatus, pushPending, net,
          orders, listLoading, isRefreshing, selectedStatus, stats>>

Null == "null"
Undefined == "undefined"

\* The largest number of remote calls awaited at once by the session and
\* the detail screen.
MaxInFlight == 1

\* The largest number of list fetches the orders list screen awaits at once.
MaxListFetches == 2

\* The largest number of stats fetches it awaits at once.
MaxStatsFetches == 1

----------------------------------------------------------------------------
(* theme: colors, ORDER_STATUS_CONFIG, getStatusConfig *)

colors ==
    [ textMuted |-> "#64748B", surface |-> "#1E293B",
      pending |-> "#F59E0B", paymentPending |-> "#F97316", paid |-> "#10B981",
      confirmed |-> "#3B82F6", processing |-> "#8B5CF6", shipped |-> "#6366F1",
      delivered |-> "#059669", cancelled |-> "#EF4444" ]

ORDER_STATUS_CONFIG ==
    [ pending |-> [label |-> "Pending", color |-> colors.pending],
      payment_pending |-> [label |-> "Payment Pending", color |-> colors.paymentPending],
      paid |-> [label |-> "Paid", color |-> colors.paid],
      confirmed |-> [label |-> "Confirmed", color |-> colors.confirmed],
      processing |-> [label |-> "Processing", color |-> colors.processing],
      shipped |-> [label |-> "Shipped", color |-> colors.shipped],
      delivered |-> [label |-> "Delivered", color |-> colors.delivered],
      cancelled |-> [label |-> "Cancelled", color |-> colors.cancelled] ]

\* Property names every JavaScript object literal inherits from
\* Object.prototype: obj[name] is a truthy value for each of them.
ObjectPrototypeKeys ==
    { "constructor", "toString", "valueOf", "hasOwnProperty", "__proto__" }

\* ORDER_STATUS_CONFIG[status]: <<entry>> for an own entry, <<member>> for an
\* inherited member (a truthy value with no label and no color field), and
\* <<>> for undefined.
Lookup(status) ==
    IF status \in DOMAIN ORDER_STATUS_CONFIG THEN << ORDER_STATUS_CONFIG[status] >>
    ELSE IF status \in ObjectPrototypeKeys
         THEN << [label |-> Undefined, color |-> Undefined] >>
         ELSE << >>

getStatusConfig(status) ==
    IF Lookup(status) # << >> THEN Lookup(status)[1]
    ELSE [label |-> status, color |-> colors.textMuted]

----------------------------------------------------------------------------
(* order detail screen: STATUS_FLOW, getNextStatus, render *)

STATUS_FLOW ==
    << "pending", "payment_pending", "paid", "confirmed", "processing",
       "shipped", "delivered" >>

\* Array.prototype.indexOf: the 0-based index of the first match, or -1.
indexOf(arr, x) ==
    IF \E i \in 1..Len(arr) : arr[i] = x
    THEN (CHOOSE i \in 1..Len(arr) :
              arr[i] = x /\ \A j \in 1..(i - 1) : arr[j] # x) - 1
    ELSE -1

\* A resolver without the two overrides: always the following element.
getNextStatusInSequence(currentStatus) ==
    LET currentIndex == indexOf(STATUS_FLOW, currentStatus) IN
    IF currentIndex = -1 \/ currentIndex >= Len(STATUS_FLOW) - 1 THEN Null
    ELSE STATUS_FLOW[(currentIndex + 1) + 1]

\* A resolver whose skip of the payment sub-state also applies from
\* 'payment_pending' itself.
getNextStatusSkipping(currentStatus) ==
    LET currentIndex == indexOf(STATUS_FLOW, currentStatus) IN
    IF currentIndex = -1 \/ currentIndex >= Len(STATUS_FLOW) - 1 THEN Null
    ELSE IF currentStatus \in { "pending", "payment_pending", "paid" }
         THEN "confirmed"
    ELSE STATUS_FLOW[(currentIndex + 1) + 1]

\* A resolver that has no last status: after 'delivered' it offers 'pending'
\* again.
getNextStatusWrapping(currentStatus) ==
    LET currentIndex == indexOf(STATUS_FLOW, currentStatus) IN
    IF currentIndex = -1 THEN Null
    ELSE IF currentIndex >= Len(STATUS_FLOW) - 1 THEN STATUS_FLOW[1]
    ELSE IF currentStatus = "pending" THEN "confirmed"
    ELSE IF currentStatus = "paid" THEN "confirmed"
    ELSE STATUS_FLOW[(currentIndex + 1) + 1]

getNextStatus(currentStatus) ==
    LET currentIndex == indexOf(STATUS_FLOW, currentStatus) IN
    IF currentIndex = -1 \/ currentIndex >= Len(STATUS_FLOW) - 1 THEN Null
    ELSE IF currentStatus = "pending" THEN "confirmed"
    ELSE IF currentStatus = "paid" THEN "confirmed"
    ELSE STATUS_FLOW[(currentIndex + 1) + 1]

\* The status strings the remote service may report: the eight known codes, a
\* code introduced later by the server, and a code that names an inherited
\* object member.
Statuses ==
    DOMAIN ORDER_STATUS_CONFIG \cup { "refunded", "constructor" }

\* What OrderDetailScreen returns: the spinner, the blocking error screen, or
\* the order content.
view ==
    IF isLoading THEN "spinner"
    ELSE IF order = << >> THEN "error"
    ELSE "content"

status == order[1].status

nextStatus == getNextStatus(status)

\* Cancel eligibility that lists the statuses it allows instead of the ones
\* it excludes.
canCancelListed ==
    status \in { "pending", "payment_pending", "paid", "confirmed", "processing" }

\* Cancel eligibility that forgets 'shipped'.
canCancelUntilDelivered == status \notin { "cancelled", "delivered" }

canCancel == status \notin { "cancelled", "delivered", "shipped" }

actionContainer == status # "cancelled" /\ status # "delivered"

cancelRendered == view = "content" /\ actionContainer /\ canCancel

advanceRendered == view = "content" /\ actionContainer /\ nextStatus # Null

\* The text StatusBadge shows for the displayed order.
badge == getStatusConfig(status)

----------------------------------------------------------------------------
(* remote calls *)

Tokens == { "tokA", "tokB" }

\* error.response of a rejected call: no response at all (code 0), or a
\* status code with or without a detail text in the body.
Failures ==
    { [code |-> 0, detail |-> Undefined],
      [code |-> 401, detail |-> "Could not validate credentials"],
      [code |-> 400, detail |-> "Invalid status transition"],
      [code |-> 502, detail |-> ""] }

Success == [code |-> 200, detail |-> Undefined]

AnyOutcome == Failures \cup { Success }

\* The outcomes the remote service can give call r: every failure, and
\* success unless the call needs a credential and carries none.
Outcomes(r) ==
    Failures \cup
    (IF r.kind = "login" \/ r.auth # Null THEN { Success } ELSE { })

NoDialog == [kind |-> "none", newStatus |-> Null, label |-> Null]

\* Calls of one kind are told apart by a number free among them.
FreshId(n, kind) ==
    CHOOSE i \in 1..(MaxInFlight + MaxListFetches + MaxStatsFetches + 1) :
        \A r \in n : r.kind = kind => r.id # i

\* A request interceptor that attaches no Authorization header.
SendWithoutHeader(n, tok, kind, arg, cont, live) ==
    n \cup { [id |-> FreshId(n, kind), kind |-> kind, arg |-> arg, cont |-> cont,
              auth |-> Null, live |-> live] }

\* api.<method>(...) through the request interceptor: the call carries the
\* token read from the store at dispatch.
Send(n, tok, kind, arg, cont, live) ==
    n \cup { [id |-> FreshId(n, kind), kind |-> kind, arg |-> arg, cont |-> cont,
              auth |-> tok, live |-> live] }

\* No call settled in the step just taken.
NoDelivery ==
    [kind |-> "none", arg |-> Null, cont |-> Null, live |-> FALSE, code |-> -1,
     detail |-> Undefined, data |-> Undefined]

\* Call r settled with outcome o and response data d.
Delivery(r, o, d) ==
    [kind |-> r.kind, arg |-> r.arg, cont |-> r.cont, live |-> r.live,
     code |-> o.code, detail |-> o.detail, data |-> d]

\* The response interceptor: a 401 removes the stored token.
Intercept(o, tok) == IF o.code = 401 THEN Null ELSE tok

\* error.response?.data?.detail ?? fallback: an empty detail text is kept.
DetailOrNullish(o, fallback) ==
    IF o.detail # Undefined THEN o.detail ELSE fallback

\* error.response?.data?.detail || fallback
DetailOr(o, fallback) ==
    IF o.detail # Undefined /\ o.detail # "" THEN o.detail ELSE fallback

Alert(title, message) == [title |-> title, message |-> message]

\* Whether the component awaiting call r is still mounted, so that its
\* state setters take effect.
Mounted(r, new, old) == IF r.live THEN new ELSE old

HasRoom(k) == Cardinality(net) + k <= MaxInFlight

\* The status a mutating call asks the remote service for.
Target(r) == IF r.kind = "cancelOrder" THEN "cancelled" ELSE r.arg

\* A step of the operator or of a component that settles no call and raises
\* no notice.
Quiet == alerts' = << >> /\ delivered' = NoDelivery

----------------------------------------------------------------------------
(* AuthProvider: checkAuthStatus, setupPushNotifications, login, logout *)

\* First start after installation: nothing is stored yet.
Init ==
    /\ token = Null
    /\ user = Null
    /\ authLoading = TRUE
    /\ authCheck = "init"
    /\ screen = "index"
    /\ order = << >>
    /\ isLoading = TRUE
    /\ isUpdating = FALSE
    /\ dialog = NoDialog
    /\ alerts = << >>
    /\ delivered = NoDelivery
    /\ srvStatus = "pending"
    /\ pushPending = FALSE
    /\ net = { }
    /\ orders = << >>
    /\ listLoading = TRUE
    /\ isRefreshing = FALSE
    /\ selectedStatus = "all"
    /\ stats = << >>

\* The mount effect of AuthProvider, up to its first await of a remote call.
checkAuthStatus ==
    /\ authCheck = "init"
    /\ IF token # Null
       THEN /\ net' = Send(net, token, "getCurrentUser", Null, Null, TRUE)
            /\ authCheck' = "pending"
            /\ UNCHANGED authLoading
       ELSE /\ authLoading' = FALSE
            /\ authCheck' = "done"
            /\ UNCHANGED net
    /\ Quiet
    /\ UNCHANGED <<token, user, screen, order, isLoading, isUpdating, dialog,
                   srvStatus, pushPending>>
    /\ UNCHANGED listVars

\* The token left in the store when authAPI.getCurrentUser() rejects with
\* outcome o: the interceptor removes it on a 401, and the catch block of
\* checkAuthStatus removes it whatever the error was.
AfterFailedCheck(o, tok) == Null

\* checkAuthStatus after authAPI.getCurrentUser() settles.
RecvGetCurrentUser(r, o) ==
    /\ r \in net /\ r.kind = "getCurrentUser" /\ o \in Outcomes(r)
    /\ net' = net \ { r }
    /\ delivered' = Delivery(r, o, Undefined)
    /\ IF o.code = 200
       THEN /\ user' = "admin"
            /\ pushPending' = TRUE
            /\ UNCHANGED token
       ELSE /\ token' = AfterFailedCheck(o, token)
            /\ UNCHANGED <<user, pushPending>>
    /\ authLoading' = FALSE
    /\ authCheck' = "done"
    /\ alerts' = << >>
    /\ UNCHANGED <<screen, order, isLoading, isUpdating, dialog, srvStatus>>
    /\ UNCHANGED listVars

\* setupPushNotifications: the device yields a push token and it is sent to
\* the backend, or it yields none.
setupPushNotifications ==
    /\ pushPending
    /\ pushPending' = FALSE
    /\ \/ /\ HasRoom(1)
          /\ net' = Send(net, token, "registerPushToken", Null, Null, TRUE)
       \/ UNCHANGED net
    /\ Quiet
    /\ UNCHANGED <<token, user, authLoading, authCheck, screen, order,
                   isLoading, isUpdating, dialog, srvStatus>>
    /\ UNCHANGED listVars

\* savePushToken after notificationsAPI.registerPushToken settles.
RecvRegisterPushToken(r, o) ==
    /\ r \in net /\ r.kind = "registerPushToken" /\ o \in Outcomes(r)
    /\ net' = net \ { r }
    /\ delivered' = Delivery(r, o, Undefined)
    /\ token' = Intercept(o, token)
    /\ alerts' = << >>
    /\ UNCHANGED <<user, authLoading, authCheck, screen, order, isLoading,
                   isUpdating, dialog, srvStatus, pushPending>>
    /\ UNCHANGED listVars

\* An entry screen that redirects without waiting for the session check.
IndexEager ==
    /\ screen = "index"
    /\ screen' = IF user # Null THEN "orders" ELSE "login"
    /\ Quiet
    /\ UNCHANGED <<token, user, authLoading, authCheck, order, isLoading,
                   isUpdating, dialog, srvStatus, pushPending, net>>
    /\ UNCHANGED listVars

\* Index: no redirect while the session check is pending.
Index ==
    /\ screen = "index"
    /\ ~authLoading
    /\ screen' = IF user # Null THEN "orders" ELSE "login"
    /\ Quiet
    /\ UNCHANGED <<token, user, authLoading, authCheck, order, isLoading,
                   isUpdating, dialog, srvStatus, pushPending, net>>
    /\ UNCHANGED listVars

isSubmitting == \E r \in net : r.kind = "login"

\* LoginScreen.handleLogin up to the await inside login().
handleLogin(filled) ==
    /\ screen = "login" /\ dialog = NoDialog /\ ~isSubmitting
    /\ IF filled
       THEN /\ HasRoom(1)
            /\ authLoading' = TRUE
            /\ net' = Send(net, token, "login", Null, Null, TRUE)
            /\ alerts' = << >>
       ELSE /\ alerts' = << Alert("Error", "Please enter both email and password") >>
            /\ UNCHANGED <<authLoading, net>>
    /\ delivered' = NoDelivery
    /\ UNCHANGED <<token, user, authCheck, screen, order, isLoading,
                   isUpdating, dialog, srvStatus, pushPending>>
    /\ UNCHANGED listVars

\* A login() that takes every answered request for a sign-in, without looking
\* for access_token in the response.
RecvLoginUnchecked(r, o, access_token) ==
    /\ r \in net /\ r.kind = "login" /\ o \in Outcomes(r)
    /\ access_token \in Tokens \cup { Undefined }
    /\ o.code = 200 \/ access_token = Undefined
    /\ net' = net \ { r }
    /\ delivered' = Delivery(r, o, access_token)
    /\ authLoading' = FALSE
    /\ IF o.code = 200
       THEN /\ token' = access_token
            /\ user' = "admin"
            /\ pushPending' = TRUE
            /\ screen' = "orders"
            /\ alerts' = << >>
       ELSE /\ token' = Intercept(o, token)
            /\ alerts' = << Alert("Login Failed",
                    DetailOr(o, "Login failed. Please check your credentials.")) >>
            /\ UNCHANGED <<user, pushPending, screen>>
    /\ UNCHANGED <<authCheck, order, isLoading, isUpdating, dialog, srvStatus>>
    /\ UNCHANGED listVars

\* login() after authAPI.login settles, and the rest of handleLogin.
\* access_token is the field of the response body (Undefined when missing).
RecvLogin(r, o, access_token) ==
    /\ r \in net /\ r.kind = "login" /\ o \in Outcomes(r)
    /\ access_token \in Tokens \cup { Undefined }
    /\ o.code = 200 \/ access_token = Undefined
    /\ net' = net \ { r }
    /\ delivered' = Delivery(r, o, access_token)
    /\ authLoading' = FALSE
    /\ IF o.code = 200 /\ access_token # Undefined
       THEN /\ token' = access_token
            /\ user' = "admin"
            /\ pushPending' = TRUE
            /\ screen' = "orders"
            /\ alerts' = << >>
       ELSE /\ token' = Intercept(o, token)
            /\ alerts' = << Alert("Login Failed",
                    IF o.code = 200 THEN "Invalid response from server"
                    ELSE DetailOr(o, "Login failed. Please check your credentials.")) >>
            /\ UNCHANGED <<user, pushPending, screen>>
    /\ UNCHANGED <<authCheck, order, isLoading, isUpdating, dialog, srvStatus>>
    /\ UNCHANGED listVars

\* OrdersScreen.handleLogout: the confirmation is opened.
handleLogout ==
    /\ screen = "orders" /\ dialog = NoDialog
    /\ dialog' = [kind |-> "logout", newStatus |-> Null, label |-> Null]
    /\ Quiet
    /\ UNCHANGED <<token, user, authLoading, authCheck, screen, order,
                   isLoading, isUpdating, srvStatus, pushPending, net>>
    /\ UNCHANGED listVars

\* 'Logout' pressed: logout() awaits removeAuthToken() and then clears the
\* user; when the credential store rejects the removal (removed = FALSE)
\* the catch block of logout() only logs the error, so that the token stays
\* stored and the user stays set. The handler then calls
\* router.replace('/login') in either case.
ConfirmLogout(removed) ==
    /\ dialog.kind = "logout"
    /\ dialog' = NoDialog
    /\ IF removed
       THEN token' = Null /\ user' = Null
       ELSE UNCHANGED <<token, user>>
    /\ screen' = "login"
    /\ Quiet
    /\ UNCHANGED <<authLoading, authCheck, order, isLoading, isUpdating,
                   srvStatus, pushPending, net>>
    /\ UNCHANGED listVars

----------------------------------------------------------------------------
(* OrderDetailScreen: mount, fetchOrder, handleUpdateStatus, handleCancelOrder *)

DetailKinds == { "getOrder", "updateOrderStatus", "cancelOrder" }

\* An order card is pressed: router.push('/order/<id>') mounts the detail
\* screen, whose effect calls fetchOrder().
OpenOrder ==
    /\ screen = "orders" /\ dialog = NoDialog /\ HasRoom(1)
    /\ screen' = "detail"
    /\ order' = << >>
    /\ isLoading' = TRUE
    /\ isUpdating' = FALSE
    /\ net' = Send(net, token, "getOrder", Null, "mount", TRUE)
    /\ Quiet
    /\ UNCHANGED <<token, user, authLoading, authCheck, dialog, srvStatus,
                   pushPending>>
    /\ UNCHANGED listVars

\* Back: the detail screen is unmounted; the calls it awaits stay in flight
\* and their continuations find the component gone.
GoBack ==
    /\ screen = "detail" /\ dialog = NoDialog
    /\ screen' = "orders"
    /\ order' = << >>
    /\ isLoading' = TRUE
    /\ isUpdating' = FALSE
    /\ net' = { IF r.kind \in DetailKinds THEN [r EXCEPT !.live = FALSE] ELSE r :
                 r \in net }
    /\ Quiet
    /\ UNCHANGED <<token, user, authLoading, authCheck, dialog, srvStatus,
                   pushPending>>
    /\ UNCHANGED listVars

\* The notices of fetchOrder and of the handler that awaited it (r.cont):
\* the failure notice of fetchOrder's own catch block, then the handler's
\* closing notice, which follows because fetchOrder never rejects.
FetchNotices(r, o) ==
    (IF o.code = 200 THEN << >>
     ELSE << Alert("Error", "Failed to load order details") >>)
    \o
    (CASE r.cont = "advance" ->
            << Alert("Success", "Order status updated to "
                                 \o getStatusConfig(r.arg).label) >>
       [] r.cont = "cancel" ->
            << Alert("Order Cancelled",
                     "The order has been cancelled successfully.") >>
       [] OTHER -> << >>)

\* The order state fetchOrder leaves when ordersAPI.getOrder settles with
\* outcome o: setOrder(data) on success, nothing in the catch block.
FetchedOrder(r, o, data, old) ==
    IF o.code = 200 THEN Mounted(r, << [status |-> data] >>, old) ELSE old

\* fetchOrder after ordersAPI.getOrder settles, followed by the rest of the
\* handler that awaited fetchOrder (r.cont), if any. The response body is
\* the order as the remote system has it at that moment.
RecvGetOrder(r, o) ==
    /\ r \in net /\ r.kind = "getOrder" /\ o \in Outcomes(r)
    /\ net' = net \ { r }
    /\ delivered' = Delivery(r, o, IF o.code = 200 THEN srvStatus ELSE Undefined)
    /\ token' = Intercept(o, token)
    /\ order' = FetchedOrder(r, o, srvStatus, order)
    /\ isLoading' = Mounted(r, FALSE, isLoading)
    /\ alerts' = FetchNotices(r, o)
    /\ isUpdating' = IF r.cont = "mount" THEN isUpdating
                     ELSE Mounted(r, FALSE, isUpdating)
    /\ UNCHANGED <<user, authLoading, authCheck, screen, dialog, srvStatus,
                   pushPending>>
    /\ UNCHANGED listVars

\* An advance control that is not disabled while a mutation is in progress.
handleUpdateStatusEnabled ==
    /\ screen = "detail" /\ dialog = NoDialog
    /\ advanceRendered
    /\ dialog' = [kind |-> "advance", newStatus |-> nextStatus,
                  label |-> getStatusConfig(nextStatus).label]
    /\ Quiet
    /\ UNCHANGED <<token, user, authLoading, authCheck, screen, order,
                   isLoading, isUpdating, srvStatus, pushPending, net>>
    /\ UNCHANGED listVars

\* The advance control is pressed: handleUpdateStatus(nextStatus) opens the
\* confirmation.
handleUpdateStatus ==
    /\ screen = "detail" /\ dialog = NoDialog
    /\ advanceRendered /\ ~isUpdating
    /\ dialog' = [kind |-> "advance", newStatus |-> nextStatus,
                  label |-> getStatusConfig(nextStatus).label]
    /\ Quiet
    /\ UNCHANGED <<token, user, authLoading, authCheck, screen, order,
                   isLoading, isUpdating, srvStatus, pushPending, net>>
    /\ UNCHANGED listVars

\* The cancel control is pressed: handleCancelOrder opens the confirmation.
handleCancelOrder ==
    /\ screen = "detail" /\ dialog = NoDialog
    /\ cancelRendered /\ ~isUpdating
    /\ dialog' = [kind |-> "cancel", newStatus |-> Null, label |-> Null]
    /\ Quiet
    /\ UNCHANGED <<token, user, authLoading, authCheck, screen, order,
                   isLoading, isUpdating, srvStatus, pushPending, net>>
    /\ UNCHANGED listVars

\* 'Cancel' / 'No' pressed in a confirmation: nothing is called.
DismissDialog ==
    /\ dialog # NoDialog
    /\ dialog' = NoDialog
    /\ Quiet
    /\ UNCHANGED <<token, user, authLoading, authCheck, screen, order,
                   isLoading, isUpdating, srvStatus, pushPending, net>>
    /\ UNCHANGED listVars

\* A confirmation that sends the status on display instead of the target.
ConfirmUpdateStatusDisplayed ==
    /\ dialog.kind = "advance" /\ HasRoom(1)
    /\ dialog' = NoDialog
    /\ isUpdating' = TRUE
    /\ net' = Send(net, token, "updateOrderStatus", status, Null, TRUE)
    /\ Quiet
    /\ UNCHANGED <<token, user, authLoading, authCheck, screen, order,
                   isLoading, srvStatus, pushPending>>
    /\ UNCHANGED listVars

\* 'Confirm' pressed: setIsUpdating(true), ordersAPI.updateOrderStatus.
ConfirmUpdateStatus ==
    /\ dialog.kind = "advance" /\ HasRoom(1)
    /\ dialog' = NoDialog
    /\ isUpdating' = TRUE
    /\ net' = Send(net, token, "updateOrderStatus", dialog.newStatus, Null, TRUE)
    /\ Quiet
    /\ UNCHANGED <<token, user, authLoading, authCheck, screen, order,
                   isLoading, srvStatus, pushPending>>
    /\ UNCHANGED listVars

\* 'Yes, Cancel' pressed: setIsUpdating(true), ordersAPI.cancelOrder.
ConfirmCancelOrder ==
    /\ dialog.kind = "cancel" /\ HasRoom(1)
    /\ dialog' = NoDialog
    /\ isUpdating' = TRUE
    /\ net' = Send(net, token, "cancelOrder", Null, Null, TRUE)
    /\ Quiet
    /\ UNCHANGED <<token, user, authLoading, authCheck, screen, order,
                   isLoading, srvStatus, pushPending>>
    /\ UNCHANGED listVars

\* The notice of the catch block of a confirmed handler.
MutationNotice(r, o) ==
    Alert("Error", DetailOr(o, IF r.kind = "cancelOrder"
                               THEN "Failed to cancel order"
                               ELSE "Failed to update status"))

\* A confirmed handler without its finally block: a failure raises the notice
\* and leaves isUpdating set.
MutationSettledNoFinally(r, o) ==
    /\ r \in net /\ r.kind \in { "updateOrderStatus", "cancelOrder" }
    /\ o \in Outcomes(r)
    /\ delivered' = Delivery(r, o, Undefined)
    /\ token' = Intercept(o, token)
    /\ IF o.code = 200
       THEN /\ srvStatus' = Target(r)
            /\ isLoading' = Mounted(r, TRUE, isLoading)
            /\ net' = Send(net \ { r }, token', "getOrder", r.arg,
                           IF r.kind = "cancelOrder" THEN "cancel" ELSE "advance",
                           r.live)
            /\ alerts' = << >>
            /\ UNCHANGED isUpdating
       ELSE /\ alerts' = << MutationNotice(r, o) >>
            /\ net' = net \ { r }
            /\ UNCHANGED <<srvStatus, isLoading, isUpdating>>
    /\ UNCHANGED <<user, authLoading, authCheck, screen, dialog, pushPending>>
    /\ UNCHANGED listVars

\* A confirmed handler that clears isUpdating as soon as the mutating call
\* settles, before the re-fetch it awaits.
MutationSettledEarly(r, o) ==
    /\ r \in net /\ r.kind \in { "updateOrderStatus", "cancelOrder" }
    /\ o \in Outcomes(r)
    /\ delivered' = Delivery(r, o, Undefined)
    /\ token' = Intercept(o, token)
    /\ isUpdating' = Mounted(r, FALSE, isUpdating)
    /\ IF o.code = 200
       THEN /\ srvStatus' = Target(r)
            /\ isLoading' = Mounted(r, TRUE, isLoading)
            /\ net' = Send(net \ { r }, token', "getOrder", r.arg,
                           IF r.kind = "cancelOrder" THEN "cancel" ELSE "advance",
                           r.live)
            /\ alerts' = << >>
       ELSE /\ alerts' = << MutationNotice(r, o) >>
            /\ net' = net \ { r }
            /\ UNCHANGED <<srvStatus, isLoading>>
    /\ UNCHANGED <<user, authLoading, authCheck, screen, dialog, pushPending>>
    /\ UNCHANGED listVars

\* The confirmed handler after its mutating call settles, but for the
\* displayed order: on success the remote status is the requested one and
\* fetchOrder() is entered (setIsLoading(true), ordersAPI.getOrder); on
\* failure the notice is raised and isUpdating is cleared.
MutationSettled(r, o) ==
    /\ r \in net /\ r.kind \in { "updateOrderStatus", "cancelOrder" }
    /\ o \in Outcomes(r)
    /\ delivered' = Delivery(r, o, Undefined)
    /\ token' = Intercept(o, token)
    /\ IF o.code = 200
       THEN /\ srvStatus' = Target(r)
            /\ isLoading' = Mounted(r, TRUE, isLoading)
            /\ net' = Send(net \ { r }, token', "getOrder", r.arg,
                           IF r.kind = "cancelOrder" THEN "cancel" ELSE "advance",
                           r.live)
            /\ alerts' = << >>
            /\ UNCHANGED isUpdating
       ELSE /\ alerts' = << MutationNotice(r, o) >>
            /\ isUpdating' = Mounted(r, FALSE, isUpdating)
            /\ net' = net \ { r }
            /\ UNCHANGED <<srvStatus, isLoading>>
    /\ UNCHANGED <<user, authLoading, authCheck, screen, dialog, pushPending>>
    /\ UNCHANGED listVars

\* A handler that patched the displayed order with the status it asked for.
RecvMutationPatching(r, o) ==
    /\ MutationSettled(r, o)
    /\ order' = IF o.code = 200 /\ order # << >>
                THEN Mounted(r, << [status |-> Target(r)] >>, order)
                ELSE order

\* Neither handler calls setOrder: the displayed order is left as it is.
RecvMutation(r, o) ==
    /\ MutationSettled(r, o)
    /\ order' = order

----------------------------------------------------------------------------
(* environment *)

\* The remote system changes the order on its own (payment, courier,
\* another operator).
ServerChange(s) ==
    /\ s \in Statuses /\ s # srvStatus
    /\ srvStatus' = s
    /\ Quiet
    /\ UNCHANGED <<token, user, authLoading, authCheck, screen, order,
                   isLoading, isUpdating, dialog, pushPending, net>>
    /\ UNCHANGED listVars

\* The process is killed and started again: component state is rebuilt, the
\* credential store persists, no pending continuation survives.
Restart ==
    /\ user' = Null
    /\ authLoading' = TRUE
    /\ authCheck' = "init"
    /\ screen' = "index"
    /\ order' = << >>
    /\ isLoading' = TRUE
    /\ isUpdating' = FALSE
    /\ dialog' = NoDialog
    /\ pushPending' = FALSE
    /\ net' = { }
    /\ Quiet
    /\ UNCHANGED <<token, srvStatus>>
    /\ UNCHANGED listVars

\* The state OpenOrder leaves for a signed-in operator: the detail screen is
\* mounted and its first fetchOrder() is awaited.
InitDetail ==
    /\ token = "tokA"
    /\ user = "admin"
    /\ authLoading = FALSE
    /\ authCheck = "done"
    /\ screen = "detail"
    /\ order = << >>
    /\ isLoading = TRUE
    /\ isUpdating = FALSE
    /\ dialog = NoDialog
    /\ alerts = << >>
    /\ delivered = NoDelivery
    /\ srvStatus \in Statuses
    /\ pushPending = FALSE
    /\ net = Send({ }, token, "getOrder", Null, "mount", TRUE)
    /\ orders = << >>
    /\ listLoading = TRUE
    /\ isRefreshing = FALSE
    /\ selectedStatus = "all"
    /\ stats = << >>

\* The order detail screen against the remote service.
NextDetail ==
    \/ OpenOrder
    \/ GoBack
    \/ \E r \in net, o \in AnyOutcome : RecvGetOrder(r, o)
    \/ handleUpdateStatus
    \/ handleCancelOrder
    \/ DismissDialog
    \/ ConfirmUpdateStatus
    \/ ConfirmCancelOrder
    \/ \E r \in net, o \in AnyOutcome : RecvMutation(r, o)
    \/ \E s \in Statuses : ServerChange(s)

SpecDetail == InitDetail /\ [][NextDetail]_vars

\* The detail screen when every request eventually resolves (the client
\* gives each request a timeout, after which it rejects).
SpecDetailLive ==
    /\ InitDetail
    /\ [][NextDetail]_vars
    /\ WF_vars(\E r \in net, o \in AnyOutcome : RecvGetOrder(r, o))
    /\ WF_vars(\E r \in net, o \in AnyOutcome : RecvMutation(r, o))

\* The session, the navigation and the detail screen; the fetches of the
\* orders list screen are followed under SpecList.
Next ==
    \/ checkAuthStatus
    \/ \E r \in net, o \in AnyOutcome : RecvGetCurrentUser(r, o)
    \/ setupPushNotifications
    \/ \E r \in net, o \in AnyOutcome : RecvRegisterPushToken(r, o)
    \/ Index
    \/ \E filled \in BOOLEAN : handleLogin(filled)
    \/ \E r \in net, o \in AnyOutcome, t \in Tokens \cup { Undefined } :
          RecvLogin(r, o, t)
    \/ handleLogout
    \/ \E removed \in BOOLEAN : ConfirmLogout(removed)
    \/ OpenOrder
    \/ GoBack
    \/ \E r \in net, o \in AnyOutcome : RecvGetOrder(r, o)
    \/ handleUpdateStatus
    \/ handleCancelOrder
    \/ DismissDialog
    \/ ConfirmUpdateStatus
    \/ ConfirmCancelOrder
    \/ \E r \in net, o \in AnyOutcome : RecvMutation(r, o)
    \/ Restart

Spec == Init /\ [][Next]_vars

----------------------------------------------------------------------------
(* OrdersScreen: fetchOrders, fetchStats, focus effect, filter tabs *)

STATUS_TABS == << "all", "pending", "paid", "confirmed", "shipped", "delivered" >>

\* The tabs the operator presses: the unfiltered one, one whose filter the
\* remote system widens, and one under which it holds no order.
TabsPressed == { "all", "pending", "paid" }

\* A fetchOrders that sends the selected key whatever it is.
statusParamAlways(sel) == sel

\* params.status of fetchOrders for the selected filter: left out for 'all'.
statusParam(sel) == IF sel # "all" THEN sel ELSE Undefined

\* The orders the remote system holds.
srvOrders ==
    << [id |-> "o1", status |-> "pending"],
       [id |-> "o2", status |-> "payment_pending"],
       [id |-> "o3", status |-> "shipped"] >>

\* GET /admin/orders?status=param at the remote system: every order when no
\* status is asked for; for 'pending' also the orders awaiting payment.
Matches(o, param) ==
    \/ param = Undefined
    \/ o.status = param
    \/ param = "pending" /\ o.status = "payment_pending"

Rows(param) == SelectSeq(srvOrders, LAMBDA o : Matches(o, param))

\* The shapes of a 2xx body of the list endpoint: a bare array, an object
\* (with or without an orders field), JSON null, an empty body (axios gives
\* the empty string) and a scalar. The orders field is << L >> when present.
ArrayBody(L) == [shape |-> "array", items |-> L, orders |-> << >>]
ObjectBody(L) == [shape |-> "object", items |-> << >>, orders |-> << L >>]
BareObject == [shape |-> "object", items |-> << >>, orders |-> << >>]
NullBody == [shape |-> "null", items |-> << >>, orders |-> << >>]
EmptyBody == [shape |-> "string", items |-> << >>, orders |-> << >>]
ScalarBody == [shape |-> "number", items |-> << >>, orders |-> << >>]

ListBodies(param) ==
    { ArrayBody(Rows(param)), ObjectBody(Rows(param)), BareObject, NullBody,
      EmptyBody, ScalarBody }

StatsBodies == { [total_orders |-> "three"], [total_orders |-> "four"] }

\* data.orders on a body that has no properties to read (null) throws.
Throws(data) == data.shape = "null"

\* Array.isArray(data) ? data : []: an object's orders field is not read.
ordersOfArray(data) == IF data.shape = "array" THEN data.items ELSE << >>

\* Array.isArray(data) ? data : data.orders || []
ordersOf(data) ==
    IF data.shape = "array" THEN data.items
    ELSE IF data.orders # << >> THEN data.orders[1]
    ELSE << >>

Awaited(kind) == { r \in net : r.kind = kind }

\* The outcomes of a call of the list screen: its handlers tell a 401 from
\* every other failure and look at nothing else of a failure.
ListOutcomes(r) == { o \in Outcomes(r) : o.code \in { 0, 200, 401 } }

\* Call r has settled and leaves net; the calls of its kind dispatched after
\* it stay numbered in dispatch order.
Settle(r) ==
    { IF q.kind = r.kind /\ q.id > r.id THEN [q EXCEPT !.id = q.id - 1] ELSE q :
        q \in net \ { r } }

HasListRoom == Cardinality(Awaited("getOrders")) < MaxListFetches

HasStatsRoom == Cardinality(Awaited("getOrderStats")) < MaxStatsFetches

\* fetchOrders(); fetchStats(): both calls are dispatched, neither awaited.
FetchBoth(sel) ==
    Send(Send(net, token, "getOrders", statusParam(sel), Null, TRUE),
         token, "getOrderStats", Null, Null, TRUE)

\* An order card is pressed: router.push puts the detail screen above the
\* list, which stays mounted and loses focus.
renderOrder ==
    /\ screen = "orders" /\ ~listLoading /\ orders # << >>
    /\ screen' = "detail"
    /\ Quiet
    /\ UNCHANGED <<token, user, authLoading, authCheck, order, isLoading,
                   isUpdating, dialog, srvStatus, pushPending, net>>
    /\ UNCHANGED listVars

\* The list regains focus under an effect that only ran on mount.
useMountEffect ==
    /\ screen = "detail"
    /\ screen' = "orders"
    /\ Quiet
    /\ UNCHANGED <<token, user, authLoading, authCheck, order, isLoading,
                   isUpdating, dialog, srvStatus, pushPending, net>>
    /\ UNCHANGED listVars

\* The list regains focus: the focus effect runs fetchOrders() and
\* fetchStats() of the current render.
useFocusEffect ==
    /\ screen = "detail" /\ HasListRoom /\ HasStatsRoom
    /\ screen' = "orders"
    /\ listLoading' = TRUE
    /\ net' = FetchBoth(selectedStatus)
    /\ Quiet
    /\ UNCHANGED <<token, user, authLoading, authCheck, order, isLoading,
                   isUpdating, dialog, srvStatus, pushPending>>
    /\ UNCHANGED <<orders, isRefreshing, selectedStatus, stats>>

\* A filter tab is pressed: setSelectedStatus(key); when the selection
\* changes, the focus effect of the new render runs with the new filter.
setSelectedStatus(key) ==
    /\ screen = "orders" /\ key # selectedStatus
    /\ HasListRoom /\ HasStatsRoom
    /\ selectedStatus' = key
    /\ listLoading' = TRUE
    /\ net' = FetchBoth(key)
    /\ Quiet
    /\ UNCHANGED <<token, user, authLoading, authCheck, screen, order,
                   isLoading, isUpdating, dialog, srvStatus, pushPending>>
    /\ UNCHANGED <<orders, isRefreshing, stats>>

\* Pull to refresh: fetchOrders(false) and fetchStats().
handleRefresh ==
    /\ screen = "orders" /\ ~listLoading
    /\ HasListRoom /\ HasStatsRoom
    /\ isRefreshing' = TRUE
    /\ net' = FetchBoth(selectedStatus)
    /\ Quiet
    /\ UNCHANGED <<token, user, authLoading, authCheck, screen, order,
                   isLoading, isUpdating, dialog, srvStatus, pushPending>>
    /\ UNCHANGED <<orders, listLoading, selectedStatus, stats>>

\* A push notification arrives: the listener registered by the first render
\* calls that render's fetchOrders(false), whose selectedStatus is 'all'.
NotificationReceived ==
    /\ HasListRoom
    /\ net' = Send(net, token, "getOrders", statusParam("all"), Null, TRUE)
    /\ Quiet
    /\ UNCHANGED <<token, user, authLoading, authCheck, screen, order,
                   isLoading, isUpdating, dialog, srvStatus, pushPending>>
    /\ UNCHANGED listVars

\* The bodies the list endpoint can answer call r with under outcome o (an
\* error carries no list).
ListResponses(r, o) == IF o.code = 200 THEN ListBodies(r.arg) ELSE { NullBody }

\* A fetchOrders that drops a response whose filter is no longer the
\* selected one.
FetchedOrdersIfCurrent(r, o, data, old) ==
    IF o.code = 200 /\ ~Throws(data) /\ r.arg = statusParam(selectedStatus)
    THEN ordersOf(data) ELSE old

\* The list fetchOrders leaves when ordersAPI.getOrders settles with outcome
\* o and body data: setOrders on a body that can be read, else the catch
\* block, which leaves it.
FetchedOrders(r, o, data, old) ==
    IF o.code = 200 /\ ~Throws(data) THEN ordersOf(data) ELSE old

\* A fetchOrders whose finally block clears the spinner only.
RecvGetOrdersKeepRefreshing(r, o, data) ==
    /\ r \in net /\ r.kind = "getOrders" /\ o \in ListOutcomes(r)
    /\ data \in ListResponses(r, o)
    /\ net' = Settle(r)
    /\ delivered' = Delivery(r, o, data)
    /\ orders' = FetchedOrders(r, o, data, orders)
    /\ IF o.code = 401
       THEN /\ alerts' = << Alert("Session Expired", "Please login again") >>
            /\ token' = Null
            /\ user' = Null
       ELSE /\ alerts' = << >>
            /\ UNCHANGED <<token, user>>
    /\ listLoading' = FALSE
    /\ UNCHANGED <<authLoading, authCheck, screen, order, isLoading,
                   isUpdating, dialog, srvStatus, pushPending>>
    /\ UNCHANGED <<isRefreshing, selectedStatus, stats>>

\* fetchOrders after ordersAPI.getOrders settles.
RecvGetOrders(r, o, data) ==
    /\ r \in net /\ r.kind = "getOrders" /\ o \in ListOutcomes(r)
    /\ data \in ListResponses(r, o)
    /\ net' = Settle(r)
    /\ delivered' = Delivery(r, o, data)
    /\ orders' = FetchedOrders(r, o, data, orders)
    /\ IF o.code = 401
       THEN /\ alerts' = << Alert("Session Expired", "Please login again") >>
            /\ token' = Null
            /\ user' = Null
       ELSE /\ alerts' = << >>
            /\ UNCHANGED <<token, user>>
    /\ listLoading' = FALSE
    /\ isRefreshing' = FALSE
    /\ UNCHANGED <<authLoading, authCheck, screen, order, isLoading,
                   isUpdating, dialog, srvStatus, pushPending>>
    /\ UNCHANGED <<selectedStatus, stats>>

\* The bodies the stats endpoint can answer with under outcome o.
StatsResponses(o) ==
    IF o.code = 200 THEN StatsBodies ELSE { CHOOSE d \in StatsBodies : TRUE }

\* A fetchStats whose catch block clears the stats.
FetchedStatsOrNone(o, data, old) == IF o.code = 200 THEN << data >> ELSE << >>

\* The stats fetchStats leaves when ordersAPI.getOrderStats settles.
FetchedStats(o, data, old) == IF o.code = 200 THEN << data >> ELSE old

\* fetchStats after ordersAPI.getOrderStats settles.
RecvGetOrderStats(r, o, data) ==
    /\ r \in net /\ r.kind = "getOrderStats" /\ o \in ListOutcomes(r)
    /\ data \in StatsResponses(o)
    /\ net' = Settle(r)
    /\ delivered' = Delivery(r, o, data)
    /\ stats' = FetchedStats(o, data, stats)
    /\ token' = Intercept(o, token)
    /\ alerts' = << >>
    /\ UNCHANGED <<user, authLoading, authCheck, screen, order, isLoading,
                   isUpdating, dialog, srvStatus, pushPending>>
    /\ UNCHANGED <<orders, listLoading, isRefreshing, selectedStatus>>

\* The list screen of a signed-in operator, mounted and focused: its first
\* focus effect has dispatched both fetches.
InitList ==
    /\ token = "tokA"
    /\ user = "admin"
    /\ authLoading = FALSE
    /\ authCheck = "done"
    /\ screen = "orders"
    /\ order = << >>
    /\ isLoading = TRUE
    /\ isUpdating = FALSE
    /\ dialog = NoDialog
    /\ alerts = << >>
    /\ delivered = NoDelivery
    /\ srvStatus = "pending"
    /\ pushPending = FALSE
    /\ orders = << >>
    /\ listLoading = TRUE
    /\ isRefreshing = FALSE
    /\ selectedStatus = "all"
    /\ stats = << >>
    /\ net = Send(Send({ }, token, "getOrders", statusParam("all"), Null, TRUE),
                  token, "getOrderStats", Null, Null, TRUE)

\* The orders list screen against the remote service; the screen pushed
\* above it is followed only as far as the list's focus goes.
NextList ==
    \/ renderOrder
    \/ useFocusEffect
    \/ \E i \in DOMAIN STATUS_TABS :
          STATUS_TABS[i] \in TabsPressed /\ setSelectedStatus(STATUS_TABS[i])
    \/ handleRefresh
    \/ NotificationReceived
    \/ \E r \in Awaited("getOrders"), o \in AnyOutcome :
          \E b \in ListResponses(r, o) : RecvGetOrders(r, o, b)
    \/ \E r \in Awaited("getOrderStats"), o \in AnyOutcome :
          \E d \in StatsResponses(o) : RecvGetOrderStats(r, o, d)

SpecList == InitList /\ [][NextList]_vars

----------------------------------------------------------------------------
(* OrderCard: the item count of a card *)

\* The most line items of an order and the largest quantity of a line item.
MaxItems == 3

MaxQuantity == 2

\* items.reduce((sum, item) => sum + item.quantity, sum)
RECURSIVE reduce(_, _)
reduce(items, sum) ==
    IF items = << >> THEN sum
    ELSE reduce(Tail(items), sum + Head(items).quantity)

\* A card that counts the line items of the order.
totalItemsCounted(o) == IF o.items = << >> THEN 0 ELSE Len(o.items[1])

\* order.items?.reduce(...) || 0. The items field of an order is << L >>
\* when the order has one and << >> when it has none.
totalItems(o) ==
    IF o.items = << >> THEN 0
    ELSE LET total == reduce(o.items[1], 0)
         IN  IF total # 0 THEN total ELSE 0

\* The lists of line items of at most n items.
ItemLists(n) ==
    UNION { [ 1..k -> [quantity : 0..MaxQuantity] ] : k \in 0..n }

\* The orders a card is rendered for: with or without an items field.
CardOrders ==
    [id : { "o1" }, status : { "pending", "paid", "shipped" },
     items : { << >> } \cup { << L >> : L \in ItemLists(MaxItems) }]

\* The list screen of a signed-in operator showing one card, no fetch in
\* flight.
InitCard ==
    /\ token = "tokA"
    /\ user = "admin"
    /\ authLoading = FALSE
    /\ authCheck = "done"
    /\ screen = "orders"
    /\ order = << >>
    /\ isLoading = TRUE
    /\ isUpdating = FALSE
    /\ dialog = NoDialog
    /\ alerts = << >>
    /\ delivered = NoDelivery
    /\ srvStatus = "pending"
    /\ pushPending = FALSE
    /\ \E o \in CardOrders : orders = << o >>
    /\ listLoading = FALSE
    /\ isRefreshing = FALSE
    /\ selectedStatus = "all"
    /\ stats = << >>
    /\ net = { }

\* The card is rendered and can be pressed.
NextCard == renderOrder

SpecCard == InitCard /\ [][NextCard]_vars

----------------------------------------------------------------------------
(* Properties of the order detail screen, checked under SpecDetail *)

\* The step just taken delivered a successful GET /orders/{id} to the
\* fetchOrder of the mounted screen.
FetchApplied ==
    delivered.kind = "getOrder" /\ delivered.code = 200 /\ delivered.live

\* The body of the response the step just taken delivered.
Payload == << [status |-> delivered.data] >>

MutationKinds == { "updateOrderStatus", "cancelOrder" }

\* C1: the displayed order is only ever assigned from the payload of a
\* GET /orders/{id} response. Every step that changes it either unmounts the
\* screen (the copy is discarded) or delivers a successful fetch whose body
\* becomes the displayed order; in particular, while isUpdating is true and
\* the screen stays mounted, every other step (the confirmation, the
\* settling of the advance or cancel call) leaves order, status included,
\* as it was.
C1_OrderOnlyFromFetch ==
    [][ /\ (order' # order /\ order' # << >>) =>
              (FetchApplied' /\ order' = Payload')
        /\ (isUpdating' /\ screen' = "detail" /\ ~FetchApplied') =>
              order' = order ]_vars

\* The advance succeeded remotely, the re-fetch is awaited, and the screen
\* still holds the copy it had before the mutation.
C1_Witness ==
    /\ isUpdating /\ order # << >>
    /\ delivered.kind = "updateOrderStatus" /\ delivered.code = 200
    /\ \E r \in net : r.kind = "getOrder" /\ r.cont = "advance" /\ r.live
    /\ srvStatus = "confirmed" /\ order[1].status = "pending"

\* C2: when the handler of a successful advance or cancel finishes (the step
\* in which the awaited re-fetch settles and isUpdating returns to false),
\* the displayed order is the payload of that re-fetch, whatever the
\* outcome of the re-fetch.
C2_FreshAfterMutation ==
    (delivered.kind = "getOrder" /\ delivered.live
        /\ delivered.cont \in { "advance", "cancel" })
    => (~isUpdating /\ delivered.code = 200 /\ order = Payload)

\* The advance was accepted remotely, its re-fetch failed, the handler has
\* finished, and the screen still shows the copy from before the mutation.
C2_Witness ==
    /\ screen = "detail" /\ ~isUpdating
    /\ delivered.kind = "getOrder" /\ delivered.cont = "advance"
    /\ delivered.live /\ delivered.code # 200
    /\ order = << [status |-> "pending"] >> /\ srvStatus = "confirmed"

\* C3: when an advance or cancel call fails, the displayed order is
\* unchanged, nothing is dispatched (no re-fetch, no retry: the failed call
\* just leaves net), and the notice raised is "Error" with the response's
\* detail text when it has a non-empty one and the handler's generic
\* message otherwise.
C3_FailedMutation ==
    [][ (delivered'.kind \in MutationKinds /\ delivered'.code # 200) =>
          /\ order' = order
          /\ net' \subseteq net /\ Cardinality(net') = Cardinality(net) - 1
          /\ alerts' = << [title |-> "Error",
                           message |->
                              IF delivered'.detail \notin { Undefined, "" }
                              THEN delivered'.detail
                              ELSE IF delivered'.kind = "updateOrderStatus"
                                   THEN "Failed to update status"
                                   ELSE "Failed to cancel order"] >> ]_vars

\* A rejected advance: the server's detail text is shown, the order still
\* shows the status it had, nothing is awaited.
C3_Witness ==
    /\ screen = "detail" /\ view = "content" /\ ~isUpdating
    /\ delivered.kind = "updateOrderStatus" /\ delivered.code = 400
    /\ alerts = << [title |-> "Error", message |-> "Invalid status transition"] >>
    /\ net = { }
    /\ status = "pending"

\* The element after s in the canonical forward ordering, written out.
Following(s) ==
    CASE s = "pending" -> "payment_pending"
      [] s = "payment_pending" -> "paid"
      [] s = "paid" -> "confirmed"
      [] s = "confirmed" -> "processing"
      [] s = "processing" -> "shipped"
      [] s = "shipped" -> "delivered"

Ordering ==
    { "pending", "payment_pending", "paid", "confirmed", "processing",
      "shipped", "delivered" }

\* C4: for the status on display, getNextStatus gives 'confirmed' for
\* 'pending' and for 'paid', 'processing' for 'confirmed', and none for
\* 'delivered', for 'cancelled' and for every status outside the forward
\* ordering; an open advance confirmation carries that target.
C4_NextStatusTable ==
    view = "content" =>
        /\ status \in { "pending", "paid" } => nextStatus = "confirmed"
        /\ status = "confirmed" => nextStatus = "processing"
        /\ status \in { "delivered", "cancelled" } => nextStatus = Null
        /\ status \notin Ordering => nextStatus = Null
        /\ dialog.kind = "advance" => dialog.newStatus = nextStatus

\* The advance control was pressed on a paid order and offers 'confirmed'.
C4_Witness ==
    /\ view = "content" /\ status = "paid"
    /\ dialog.kind = "advance" /\ dialog.newStatus = "confirmed"

\* C5: for every status of the forward ordering other than 'pending', 'paid'
\* and 'delivered', getNextStatus gives the element immediately following
\* it, and that is the target the advance control asks to confirm.
C5_NextInSequence ==
    (view = "content" /\ status \in Ordering \ { "pending", "paid", "delivered" }) =>
        /\ nextStatus = Following(status)
        /\ dialog.kind = "advance" => dialog.newStatus = Following(status)

\* The advance control was pressed on a payment_pending order and offers
\* 'paid'.
C5_Witness ==
    /\ view = "content" /\ status = "payment_pending"
    /\ dialog.kind = "advance" /\ dialog.newStatus = "paid"

\* C6: whatever status string is displayed, known or not, the cancel control
\* is rendered iff the status is none of 'cancelled', 'delivered', 'shipped';
\* the cancel confirmation is only ever open over such a status.
C6_CancelOffered ==
    /\ view = "content" =>
          (cancelRendered <=> status \notin { "cancelled", "delivered", "shipped" })
    /\ dialog.kind = "cancel" =>
          (view = "content" /\ status \notin { "cancelled", "delivered", "shipped" })

\* The cancel control was pressed on an order whose status the client does
\* not know.
C6_Witness ==
    /\ view = "content" /\ status = "refunded"
    /\ cancelRendered /\ dialog.kind = "cancel"

\* C7: which controls are rendered depends on the displayed status alone:
\* for 'shipped' only the advance control, targeting 'delivered'; for
\* 'delivered' and 'cancelled' neither; for every other status of the
\* ordering both. A confirmation is open, and so a mutation can be issued,
\* only over a status that is not terminal.
C7_ControlsByStatus ==
    /\ view = "content" =>
          /\ status = "shipped" =>
                (advanceRendered /\ ~cancelRendered /\ nextStatus = "delivered")
          /\ status \in { "delivered", "cancelled" } =>
                (~advanceRendered /\ ~cancelRendered)
          /\ status \in Ordering \ { "shipped", "delivered" } =>
                (advanceRendered /\ cancelRendered)
    /\ dialog.kind \in { "advance", "cancel" } =>
          (view = "content" /\ status \notin { "delivered", "cancelled" })

\* The advance control was pressed on a shipped order, where no cancel
\* control is rendered, and offers 'delivered'.
C7_Witness ==
    /\ view = "content" /\ status = "shipped" /\ ~cancelRendered
    /\ dialog.kind = "advance" /\ dialog.newStatus = "delivered"

\* C8: for each of the eight known codes the badge of the displayed order
\* shows that code's fixed label and color, and for every other status
\* string it shows the raw string as label in the neutral muted color.
C8_RegistryTotal ==
    view = "content" =>
        badge = IF status \in DOMAIN ORDER_STATUS_CONFIG
                THEN ORDER_STATUS_CONFIG[status]
                ELSE [label |-> status, color |-> "#64748B"]

\* An order whose status string names a member every object inherits is on
\* display: the lookup finds that member, so the fallback is not taken and
\* the badge has no label.
C8_Witness ==
    /\ view = "content" /\ status = "constructor"
    /\ badge.label = Undefined

----------------------------------------------------------------------------
(* Properties of the session, checked under Spec *)

\* C9: after an authenticated call receives a 401, the stored token is
\* absent and the session the screens render from is unauthenticated (user
\* cleared, so isAuthenticated is false).
C9_UnauthorizedEndsSession ==
    (delivered.code = 401 /\ delivered.kind # "login")
        => (token = Null /\ user = Null)

\* A 401 has just been received by a call other than the orders list: the
\* token is gone, the user object is still set and the operator is still on
\* an authenticated screen.
C9_Witness ==
    /\ delivered.code = 401 /\ delivered.kind # "login"
    /\ token = Null /\ user # Null /\ screen \in { "orders", "detail" }

\* C10: a stored token becomes absent only by a confirmed logout or by a
\* 401 response; no other step (such as a failure of another kind of the
\* startup /auth/me check) removes it.
C10_TokenKept ==
    [][ (token # Null /\ token' = Null) =>
           ((\E removed \in BOOLEAN : ConfirmLogout(removed))
            \/ delivered'.code = 401) ]_vars

\* The startup check has just failed without any response (no network): the
\* token stored by the earlier login is gone.
C10_Witness ==
    /\ delivered.kind = "getCurrentUser" /\ delivered.code = 0
    /\ token = Null /\ authCheck = "done"

\* The calls dispatched by the step just taken (a call keeps its id and kind
\* from dispatch until it settles).
Dispatched ==
    { r \in net' : \A q \in net : q.id # r.id \/ q.kind # r.kind }

\* C11: every request is dispatched with the token stored at that moment as
\* its bearer credential, and with no Authorization header (auth = Null)
\* when none is stored; so a token that login replaced, or that logout or a
\* 401 removed, is on no request dispatched afterwards.
C11_TokenReadAtDispatch ==
    [][ \A r \in Dispatched : r.auth = token /\ r.auth = token' ]_vars

\* The token was evicted by a 401 while the operator stayed signed in, and
\* the detail request dispatched afterwards carries no header.
C11_Witness ==
    /\ token = Null /\ user # Null
    /\ \E r \in net : r.kind = "getOrder" /\ r.live /\ r.auth = Null

----------------------------------------------------------------------------
(* Further properties of the order detail screen, checked under SpecDetail *)

\* The calls of the mounted detail screen that belong to a confirmed advance
\* or cancel: the mutating call, then the re-fetch its handler awaits.
HandlerCalls ==
    { r \in net : /\ r.live
                  /\ \/ r.kind \in MutationKinds
                     \/ r.kind = "getOrder" /\ r.cont \in { "advance", "cancel" } }

C18_AdvanceSequence ==
    [][ /\ (dialog = NoDialog /\ dialog'.kind = "advance") =>
              /\ dialog'.newStatus = getNextStatus(order[1].status)
              /\ Dispatched = { }
        /\ \A r \in Dispatched : r.kind = "updateOrderStatus" =>
              /\ dialog.kind = "advance" /\ dialog' = NoDialog
              /\ r.arg = dialog.newStatus
              /\ r.arg = getNextStatus(order[1].status)
              /\ Dispatched = { r }
        /\ (dialog.kind = "advance" /\ dialog' = NoDialog /\ screen' = "detail") =>
              \/ \E r \in Dispatched : r.kind = "updateOrderStatus"
              \/ Dispatched = { } /\ isUpdating' = isUpdating
        /\ delivered'.kind = "updateOrderStatus" =>
              IF delivered'.code = 200
              THEN \E r \in Dispatched :
                      /\ Dispatched = { r }
                      /\ r.kind = "getOrder" /\ r.cont = "advance"
              ELSE Dispatched = { }
        /\ \A r \in Dispatched : (r.kind = "getOrder" /\ r.cont = "advance") =>
              (delivered'.kind = "updateOrderStatus" /\ delivered'.code = 200)
      ]_vars

\* The advance of a pending order has run to its end: the re-fetch shows
\* 'confirmed' and the badge reads "Confirmed".
C18_Witness ==
    /\ delivered.kind = "getOrder" /\ delivered.cont = "advance"
    /\ delivered.arg = "confirmed" /\ delivered.code = 200 /\ delivered.live
    /\ view = "content" /\ status = "confirmed" /\ badge.label = "Confirmed"
    /\ ~isUpdating

\* C20: whenever a fetch of the order detail fails, on first load or on the
\* re-fetch after a mutation, the generic failure notice is raised and the
\* screen shows the blocking error screen instead of order content.
C20_FetchFailureBlocks ==
    (delivered.kind = "getOrder" /\ delivered.live /\ delivered.code # 200)
    => /\ \E i \in DOMAIN alerts :
              alerts[i] = Alert("Error", "Failed to load order details")
       /\ view = "error"

\* The re-fetch after a successful cancel has failed: the notice is raised,
\* and the order content from before the cancel is shown, not the error
\* screen.
C20_Witness ==
    /\ delivered.kind = "getOrder" /\ delivered.live /\ delivered.code # 200
    /\ delivered.cont = "cancel"
    /\ view = "content" /\ srvStatus = "cancelled" /\ status # "cancelled"

----------------------------------------------------------------------------
(* Properties of the orders list screen, checked under SpecList *)

\* The step just taken delivered a 2xx list response.
ListDelivered == delivered.kind = "getOrders" /\ delivered.code = 200

\* The list calls and the stats calls dispatched by the step just taken.
ListDispatched == { r \in Dispatched : r.kind = "getOrders" }

StatsDispatched == { r \in Dispatched : r.kind = "getOrderStats" }

\* The step just taken is a focus event of the list screen or a change of
\* the selected filter.
FocusOrFilterChange ==
    \/ screen = "detail" /\ screen' = "orders"
    \/ selectedStatus' # selectedStatus

\* C12: a 2xx list response that is the bare array L and one that is an
\* object whose orders field is L are read to the same list, L, and L is
\* what the screen then displays.
C12_ListShapesAgree ==
    (ListDelivered /\ (delivered.data.shape = "array" \/ delivered.data.orders # << >>))
    => LET L == IF delivered.data.shape = "array" THEN delivered.data.items
                ELSE delivered.data.orders[1]
       IN /\ orders = L
          /\ ordersOf(ArrayBody(L)) = L
          /\ ordersOf(ObjectBody(L)) = L

\* An object-shaped response with three orders is on display.
C12_Witness ==
    /\ ListDelivered /\ delivered.data.shape = "object"
    /\ delivered.data.orders # << >> /\ Len(orders) = Len(srvOrders)
    /\ orders = delivered.data.orders[1]

\* C13: after a 2xx list response whose body is neither an array nor an
\* object with an orders field (an object without orders, JSON null, an
\* empty body, a scalar) the displayed list is empty and no notice is
\* raised.
C13_OtherShapesEmpty ==
    (ListDelivered /\ delivered.data.shape # "array" /\ delivered.data.orders = << >>)
    => (orders = << >> /\ alerts = << >>)

\* A 2xx response with body null has arrived over a list that was on
\* display: the list is still shown.
C13_Witness ==
    /\ ListDelivered /\ delivered.data = NullBody
    /\ orders # << >> /\ alerts = << >>

\* C14: the list request issued by a filter change or a focus event carries
\* the selected filter code verbatim as status, and no status for 'all';
\* and the rows of a response are displayed as returned: for filter
\* 'pending' the payment_pending rows the remote system includes stay.
C14_FilterVerbatim ==
    [][ /\ FocusOrFilterChange =>
              /\ ListDispatched # { }
              /\ \A r \in ListDispatched :
                    r.arg = (IF selectedStatus' = "all" THEN Undefined
                             ELSE selectedStatus')
        /\ (ListDelivered' /\ delivered'.data \in
                { ArrayBody(Rows(delivered'.arg)), ObjectBody(Rows(delivered'.arg)) })
              => orders' = Rows(delivered'.arg) ]_vars

\* Filter 'pending' is selected and its response is displayed, the
\* payment_pending order included.
C14_Witness ==
    /\ selectedStatus = "pending" /\ ListDelivered /\ delivered.arg = "pending"
    /\ \E i \in DOMAIN orders : orders[i].status = "payment_pending"
    /\ \E i \in DOMAIN orders : orders[i].status = "pending"

\* C15: every focus event of the list screen, and every change of the
\* selected filter, dispatches exactly one list fetch, for the filter then
\* selected, and exactly one stats fetch, and shows the loader; no pull to
\* refresh is involved.
C15_RefreshOnFocus ==
    [][ FocusOrFilterChange =>
          /\ Cardinality(ListDispatched) = 1
          /\ Cardinality(StatsDispatched) = 1
          /\ \E r \in ListDispatched : r.arg = statusParam(selectedStatus')
          /\ listLoading' /\ isRefreshing' = isRefreshing ]_vars

\* The operator is back on the list, which still shows the orders fetched
\* before, and both fetches are awaited.
C15_Witness ==
    /\ screen = "orders" /\ listLoading /\ ~isRefreshing
    /\ orders = Rows(Undefined) /\ stats # << >>
    /\ selectedStatus = "all"
    /\ Cardinality(Awaited("getOrders")) = 1
    /\ Cardinality(Awaited("getOrderStats")) = 1

\* C16: list fetches are neither cancelled nor sequenced: a filter change
\* leaves every call in flight, and every readable 2xx list response
\* becomes the displayed list when it arrives, whatever filter is selected
\* and whatever else is in flight; only the settled call leaves net.
C16_LastResponseWins ==
    [][ /\ selectedStatus' # selectedStatus => net \subseteq net'
        /\ (ListDelivered' /\ ~Throws(delivered'.data)) =>
              /\ orders' = ordersOf(delivered'.data)
              /\ Cardinality(net') = Cardinality(net) - 1 ]_vars

\* Filter 'paid' is selected, no list fetch is in flight, and the list on
\* display is the answer to the 'pending' filter, which resolved last.
C16_Witness ==
    /\ selectedStatus = "paid" /\ Awaited("getOrders") = { }
    /\ ListDelivered /\ delivered.arg = "pending"
    /\ orders = Rows("pending") /\ orders # Rows("paid")

\* C19: the list fetch and the stats fetch are independent: a step that
\* settles a stats fetch leaves orders, isLoading and isRefreshing as they
\* are, a step that settles a list fetch leaves stats as it is, and a failed
\* stats fetch keeps the stats and raises no notice.
C19_ListStatsIndependent ==
    [][ /\ delivered'.kind = "getOrderStats" =>
              /\ orders' = orders /\ listLoading' = listLoading
              /\ isRefreshing' = isRefreshing
        /\ delivered'.kind = "getOrders" => stats' = stats
        /\ (delivered'.kind = "getOrderStats" /\ delivered'.code # 200) =>
              (stats' = stats /\ alerts' = << >>) ]_vars

\* A stats fetch has failed while the list is still loading: the stats
\* shown before are still shown.
C19_Witness ==
    /\ delivered.kind = "getOrderStats" /\ delivered.code # 200
    /\ stats # << >> /\ listLoading /\ alerts = << >>
    /\ Awaited("getOrders") # { }

----------------------------------------------------------------------------
(* C21 *)

\* The messages login() makes up itself when the server gave no detail text.
GenericLoginMessages ==
    { "Invalid response from server",
      "Login failed. Please check your credentials." }

\* C21: a login attempt ends in success (navigation to the orders screen, no
\* notice) exactly when /auth/login was answered 200 with an access_token;
\* then that token is stored and the user is set.  Otherwise no token is
\* written, the user is unchanged, the operator stays on the login screen
\* and the 'Login Failed' notice carries the server's detail text when there
\* is one and a generic message when there is none.
C21_LoginResult ==
    [][ delivered'.kind = "login" =>
        LET ok == delivered'.code = 200 /\ delivered'.data # Undefined
        IN  /\ (screen' = "orders") <=> ok
            /\ ok => /\ token' = delivered'.data
                     /\ token' \in Tokens
                     /\ user' # Null
                     /\ alerts' = << >>
            /\ ~ok => /\ token' \in { token, Null }
                      /\ user' = user
                      /\ screen' = screen
                      /\ Len(alerts') = 1
                      /\ alerts'[1].title = "Login Failed"
                      /\ IF delivered'.detail \notin { Undefined, "" }
                            /\ delivered'.code # 200
                         THEN alerts'[1].message = delivered'.detail
                         ELSE alerts'[1].message \in GenericLoginMessages
      ]_vars

\* /auth/login was answered 200 without access_token: the attempt failed with
\* the generic message and nothing was stored.
C21_Witness ==
    /\ delivered.kind = "login" /\ delivered.code = 200
    /\ delivered.data = Undefined
    /\ token = Null /\ user = Null /\ screen = "login"
    /\ alerts = << Alert("Login Failed", "Invalid response from server") >>

----------------------------------------------------------------------------
(* C22 *)

\* The titles of the notices the client raises with Alert.alert, each of
\* which the operator dismisses with its button.
NoticeTitles ==
    { "Error", "Login Failed", "Session Expired", "Success", "Order Cancelled" }

----------------------------------------------------------------------------
(* C23 *)

\* The quantities of the first n line items of L, added up.
RECURSIVE SumOfQuantities(_, _)
SumOfQuantities(L, n) ==
    IF n = 0 THEN 0 ELSE SumOfQuantities(L, n - 1) + L[n].quantity

\* C23: the item count shown on an order card is the sum of the quantities
\* of the order's line items, and 0 when the order has no items field or an
\* empty list of items.
C23_ItemCount ==
    \A i \in DOMAIN orders :
        LET o == orders[i]
        IN  /\ o.items = << >> => totalItems(o) = 0
            /\ o.items # << >> =>
                  /\ totalItems(o) = SumOfQuantities(o.items[1], Len(o.items[1]))
                  /\ o.items[1] = << >> => totalItems(o) = 0

\* A card of an order with three line items of quantities 2, 1 and 2 shows 5.
C23_Witness ==
    /\ screen = "orders" /\ orders # << >>
    /\ orders[1].items = << << [quantity |-> 2], [quantity |-> 1],
                               [quantity |-> 2] >> >>
    /\ totalItems(orders[1]) = 5

----------------------------------------------------------------------------
(* C24 *)

\* The place of s in the canonical forward ordering, written out.
Rank(s) ==
    CASE s = "pending" -> 1
      [] s = "payment_pending" -> 2
      [] s = "paid" -> 3
      [] s = "confirmed" -> 4
      [] s = "processing" -> 5
      [] s = "shipped" -> 6
      [] s = "delivered" -> 7

\* The number of advances from s until no advance is offered, each to the
\* status getNextStatus offers; fuel stops the count of a resolver that
\* never arrives.
RECURSIVE Advances(_, _)
Advances(s, fuel) ==
    IF getNextStatus(s) = Null \/ fuel = 0 THEN 0
    ELSE 1 + Advances(getNextStatus(s), fuel - 1)

\* For the status on display, getNextStatus gives none or a status strictly
\* later in the forward ordering, never 'pending', 'payment_pending' or
\* 'cancelled'.
NextIsLater ==
    /\ nextStatus # Null =>
          /\ status \in Ordering /\ nextStatus \in Ordering
          /\ Rank(nextStatus) > Rank(status)
    /\ nextStatus \notin { "pending", "payment_pending", "cancelled" }

\* C24 as stated: getNextStatus gives none or a strictly later status, never
\* 'pending', 'payment_pending' or 'cancelled', and from any status at most
\* four advances lead to a status with no advance action.
C24_FourAdvances ==
    view = "content" =>
        /\ NextIsLater
        /\ Advances(status, Len(STATUS_FLOW) + 1) <= 4

\* C24, amended: getNextStatus gives none or a strictly later status, never
\* 'pending', 'payment_pending' or 'cancelled'; at most five advances lead
\* to a status with no advance action: five from 'payment_pending', at most
\* four from every other status.
C24_FiveAdvances ==
    view = "content" =>
        /\ NextIsLater
        /\ Advances(status, Len(STATUS_FLOW) + 1) <= 5
        /\ status # "payment_pending" =>
              Advances(status, Len(STATUS_FLOW) + 1) <= 4
        /\ status = "payment_pending" =>
              Advances(status, Len(STATUS_FLOW) + 1) = 5

\* An order awaiting payment is displayed: 'paid' is offered, the first of
\* five advances to 'delivered'.
C24_Witness ==
    /\ view = "content" /\ status = "payment_pending"
    /\ nextStatus = "paid" /\ advanceRendered
    /\ getNextStatus("paid") = "confirmed"
    /\ getNextStatus("confirmed") = "processing"
    /\ getNextStatus("processing") = "shipped"
    /\ getNextStatus("shipped") = "delivered"
    /\ getNextStatus("delivered") = Null

----------------------------------------------------------------------------
(* C25 *)

\* The step just taken settled with a 401 a call whose credential is not
\* the stored token: it was dispatched under an earlier session.
StaleUnauthorized ==
    /\ delivered'.code = 401
    /\ \E r \in net \ net' : r.kind = delivered'.kind /\ r.auth # token

\* C25: whenever the session reports authenticated (user set), a token is
\* stored; in particular a 401 to a call dispatched under an earlier
\* session does not remove the token a later login stored.
C25_UserHasToken ==
    [][ /\ user' # Null => token' # Null
        /\ (StaleUnauthorized /\ token # Null) => token' = token ]_vars

\* A confirmed advance was answered 401 on the detail screen: the notice is
\* up, the operator is still signed in, and no token is stored.
C25_Witness ==
    /\ delivered.kind = "updateOrderStatus" /\ delivered.code = 401
    /\ screen = "detail" /\ user # Null /\ token = Null
    /\ alerts # << >>

----------------------------------------------------------------------------
(* C26 *)

\* C26: the list refresh a push notification triggers is issued with the
\* filter selected when the notification arrives.
C26_NotificationUsesFilter ==
    [][ NotificationReceived =>
           /\ ListDispatched # { }
           /\ \A r \in ListDispatched : r.arg = statusParam(selectedStatus)
      ]_vars

\* The 'pending' tab is selected, the last list response to arrive was that
\* of an unfiltered fetch, no list fetch is in flight, and the list on
\* display holds every order of the remote system, the shipped one included.
C26_Witness ==
    /\ selectedStatus = "pending"
    /\ delivered.kind = "getOrders" /\ delivered.code = 200
    /\ delivered.arg = Undefined
    /\ Awaited("getOrders") = { }
    /\ orders = Rows(Undefined)
    /\ orders # Rows(statusParam(selectedStatus))

----------------------------------------------------------------------------
(* C27 *)

\* What the list area shows: the spinner while isLoading, else the list,
\* whose pull-to-refresh indicator shows while isRefreshing.
listView == IF listLoading THEN "spinner" ELSE "list"

refreshing == listView = "list" /\ isRefreshing

\* C27: every list fetch, whether it succeeds, fails or is answered 401,
\* ends by clearing both isLoading and isRefreshing, and one that fails
\* leaves the displayed orders as they were; so whenever no list fetch is
\* in flight, neither the spinner nor the pull-to-refresh indicator shows.
C27_SpinnersCleared ==
    [][ /\ delivered'.kind = "getOrders" =>
              /\ ~listLoading' /\ ~isRefreshing'
              /\ delivered'.code # 200 => orders' = orders
        /\ Awaited("getOrders")' = { } =>
              (listView' = "list" /\ ~refreshing') ]_vars

\* A pull to refresh was answered 401 while a list was on display: the
\* indicator is gone, no fetch is in flight, the list is the one from before.
C27_Witness ==
    /\ delivered.kind = "getOrders" /\ delivered.code = 401
    /\ Awaited("getOrders") = { }
    /\ ~listLoading /\ ~isRefreshing
    /\ orders = Rows(Undefined)

----------------------------------------------------------------------------
(* C28 *)

\* C28: on the mounted detail screen isUpdating is true exactly while the
\* handler of a confirmed advance or cancel runs, that is from the
\* confirmation until the mutating call and the re-fetch that follows it
\* have both resolved; and, every request resolving eventually, every
\* confirmed mutation is followed by a state in which isUpdating is false
\* and, the screen still being mounted, isLoading is false and the handler
\* awaits nothing, whichever of the two calls succeeded or failed.
C28_UpdatingEnds ==
    /\ [](screen = "detail" => (isUpdating <=> HandlerCalls # { }))
    /\ [][ (isUpdating' /\ ~isUpdating) =>
              (dialog.kind \in { "advance", "cancel" } /\ dialog' = NoDialog
               /\ \E r \in Dispatched : r.kind \in MutationKinds) ]_vars
    /\ (isUpdating ~>
           (~isUpdating /\ (screen = "detail" => ~isLoading /\ HandlerCalls = { })))

\* The advance succeeded, its re-fetch failed, and the handler has finished:
\* isUpdating and isLoading are both false and the order is on display.
C28_Witness ==
    /\ screen = "detail" /\ ~isUpdating /\ ~isLoading /\ HandlerCalls = { }
    /\ delivered.kind = "getOrder" /\ delivered.cont = "advance"
    /\ delivered.live /\ delivered.code = 502
    /\ view = "content"

----------------------------------------------------------------------------
(* C29 *)

\* C29: at process start the entry screen redirects nowhere while the
\* session check is pending; the check issues /auth/me only when a token is
\* stored, and with that token; on the entry screen the user is only set
\* by a successful /auth/me; and when the check is complete the entry
\* screen routes to the orders screen if the user was so set (a token was
\* stored and /auth/me succeeded) and to the login screen otherwise.
C29_EntryRouting ==
    [][ /\ (screen' = "index" /\ authCheck' # "done") => authLoading'
        /\ (screen' = "index" /\ screen # "index") =>
              (user' = Null /\ authCheck' = "init" /\ net' = { })
        /\ (authCheck = "init" /\ authCheck' # "init") =>
              /\ token # Null <=>
                    (\E r \in Dispatched : r.kind = "getCurrentUser")
              /\ \A r \in Dispatched : r.auth = token
              /\ token = Null => (authCheck' = "done" /\ user' = Null)
        /\ (\E r \in Dispatched : r.kind = "getCurrentUser") =>
              (authCheck = "init" /\ token # Null)
        /\ (screen = "index" /\ user' # user /\ user' # Null) =>
              (delivered'.kind = "getCurrentUser" /\ delivered'.code = 200)
        /\ (screen = "index" /\ screen' # "index") =>
              /\ authCheck = "done" /\ ~authLoading
              /\ \A r \in net : r.kind # "getCurrentUser"
              /\ screen' = IF user # Null THEN "orders" ELSE "login"
      ]_vars

\* The process was started with a stored token and /auth/me has just
\* succeeded: the check is complete and the entry screen is about to route
\* to the orders screen.
C29_Witness ==
    /\ screen = "index" /\ authCheck = "done" /\ ~authLoading
    /\ delivered.kind = "getCurrentUser" /\ delivered.code = 200
    /\ token # Null /\ user # Null
    /\ ENABLED Index

----------------------------------------------------------------------------
(* C30 *)

\* C30: after the operator confirms the logout and is taken to the login
\* screen, no token is stored and the session is unauthenticated (user
\* cleared), also when the credential store fails to remove the token.
C30_LogoutEndsSession ==
    [][ (dialog.kind = "logout" /\ dialog' = NoDialog /\ screen' = "login") =>
           (token' = Null /\ user' = Null) ]_vars

\* The operator confirmed the logout, the store rejected the removal, and
\* the login screen is shown over a session that still has its token and
\* its user.
C30_Witness ==
    /\ screen = "login" /\ dialog = NoDialog
    /\ token # Null /\ user # Null
    /\ delivered = NoDelivery

============================================================================
